---- MODULE Spec2Model ----
(***************************************************************************)
(* Presence registry and per-device mailbox of web/api/printer_discovery.py *)
(* over an expiring key-value store (Redis sorted sets, string keys, TTLs,  *)
(* MULTI/EXEC pipelines).                                                   *)
(*                                                                          *)
(* Every `with REDIS.pipeline() as conn: ... conn.execute()` block is one   *)
(* atomic step.  redis__active_devices_for_client_ip runs two pipelines and *)
(* is therefore two steps, with other callers free to run in between.      *)
(* Time is integer seconds.  `clock` is the store's own clock, which key    *)
(* TTLs follow; the cur_time argument of each call is chosen by the caller. *)
(***************************************************************************)
EXTENDS Integers, Sequences, FiniteSets, TLC

VARIABLES
    clock,        \* the store's clock (seconds)
    presence,     \* [client -> zset of device ids]   printer_discovery:<ip>:presence
    presenceExp,  \* [client -> expiry time of that key, NoKey when the key is absent]
    info,         \* [<<client, device>> -> raw DeviceInfo json, or NoRaw]
    infoExp,      \* [<<client, device>> -> expiry time of that key, NoKey when absent]
    mailbox,      \* [<<client, device>> -> zset of raw DeviceMessage json]
    mailboxExp,   \* [<<client, device>> -> expiry time of that key, NoKey when absent]
    pull,         \* the last redis__pull_messages_for_device call and its outcome
    list,         \* the redis__active_devices_for_client_ip call in progress / its outcome
    lastUpdate,   \* history: the arguments of the latest update-presence call per device
    delivered,    \* history: payloads a pull has returned since they were last pushed
    calls,        \* number of calls made so far
    last          \* history: the latest call made since the clock last advanced

vars == <<clock, presence, presenceExp, info, infoExp, mailbox, mailboxExp,
          pull, list, lastUpdate, delivered, calls, last>>

storeVars == <<presence, presenceExp, info, infoExp, mailbox, mailboxExp>>
presenceVars == <<presence, presenceExp, info, infoExp>>
mailboxVars == <<mailbox, mailboxExp>>

----------------------------------------------------------------------------
(* Bounds of the model *)

\* the clock and every cur_time argument range over 0..MaxTime
MaxTime == 3

\* a caller's cur_time differs from the store's clock by at most MaxSkew
MaxSkew == 1

\* the expiration_secs argument of the mailbox calls (default 60), scaled
MessageWindow == 3

\* the expiration_secs argument of the presence calls (default 10), scaled
PresenceWindow == 2

\* the message_count argument ranges over 0..MaxCount (default 3)
MaxCount == 2

\* number of calls in one behaviour of the mailbox alone
MaxCalls == 5

\* number of calls in one behaviour of the presence registry alone
MaxPresenceCalls == 4

\* number of calls in one behaviour of the two subsystems together
MaxCallsAll == 3

\* number of calls in one behaviour of two callers racing on one key
MaxRaceCalls == 2

Clients == {"ip1", "ip2"}
Devices == {"d1", "d2"}
Times == 0..MaxTime
Keys == Clients \X Devices

Nil == "nil"
\* the expiry recorded for a key that does not exist
NoKey == -1
\* what GET returns for a key that does not exist (falsy, like None)
NoRaw == <<>>
\* no update-presence call yet
NoUpdate == [now |-> -1, at |-> -1, info |-> [device_id |-> Nil], n |-> 0]
\* no call since the clock last advanced
NoCall == [op |-> "none", client |-> Nil, device |-> Nil, raw |-> <<>>, count |-> 0,
           now |-> 0, prior |-> NoKey, repeat |-> FALSE]

\* the history counters stop counting at MaxCalls
Count(n) == IF n < MaxCalls THEN n + 1 ELSE n

\* the record of a call: what was called with which arguments, the score the
\* written member had before (NoKey when it was not stored), and whether the
\* call repeats the one before it with no other call and no tick in between
Called(op, client_ip, device_id, raw, count, t, prior) ==
    [op |-> op, client |-> client_ip, device |-> device_id, raw |-> raw,
     count |-> count, now |-> t, prior |-> prior,
     repeat |-> /\ last.op = op
                /\ last.client = client_ip
                /\ last.device = device_id
                /\ last.raw = raw
                /\ last.count = count
                /\ last.now = t]

----------------------------------------------------------------------------
(* Strings.  The model's strings stand for themselves, except that the      *)
(* device ids "d1" and "d2" stand for two 32-character identifiers.         *)

Length(s) ==
    CASE s \in Devices -> 32
      [] s = "" -> 0
      [] s = " " -> 1
      [] s = "short" -> 5
      [] OTHER -> 4

\* str.strip()
Strip(s) ==
    CASE s = " " -> ""
      [] s = " cmd" -> "cmd"
      [] s = " h1" -> "h1"
      [] OTHER -> s

\* position of a string in the byte-wise (lexicographic) order the store sorts by
StrOrd(s) ==
    CASE s = "" -> 0
      [] s = " " -> 1
      [] s = " cmd" -> 2
      [] s = " h1" -> 3
      [] s = "cmd" -> 4
      [] s = "d1" -> 5
      [] s = "d2" -> 6
      [] s = "h1" -> 7
      [] s = "h2" -> 8
      [] s = "ping" -> 9
      [] s = "short" -> 10
      [] s = "stop" -> 11
      [] s = "x1" -> 12
      [] OTHER -> 13

----------------------------------------------------------------------------
(* Serializers (rest_framework): a validation outcome is [ok, value].       *)

Invalid == [ok |-> FALSE, value |-> Nil]
Valid(v) == [ok |-> TRUE, value |-> v]

\* serializers.CharField(required=True, min_length=.., max_length=.., allow_blank=..)
\* with the default trim_whitespace=True
CharField(d, field, minLen, maxLen, allowBlank) ==
    IF field \notin DOMAIN d THEN Invalid
    ELSE LET v == Strip(d[field])
         IN  IF v = "" THEN (IF allowBlank THEN Valid("") ELSE Invalid)
             ELSE IF Length(v) < minLen \/ Length(v) > maxLen THEN Invalid
             ELSE Valid(v)

\* the data values of the model: "x1" stands for the mapping {"x": 1},
\* "null" for a value that is no mapping
DataDicts == {"x1"}

\* serializers.DictField(required=True)
DictField(d, field) ==
    IF field \notin DOMAIN d THEN Invalid
    ELSE IF d[field] \in DataDicts THEN Valid(d[field]) ELSE Invalid

\* json.dumps of a dataclass: the object's fields, in declaration order, as text
JsonDumps(obj, fields) == [i \in 1..Len(fields) |-> <<fields[i], obj[fields[i]]>>]

\* json.loads: the mapping the text denotes
JsonLoads(raw) ==
    [k \in {raw[i][1] : i \in 1..Len(raw)} |->
        LET i == CHOOSE j \in 1..Len(raw) : raw[j][1] = k IN raw[i][2]]

MessageFields == <<"device_id", "type", "data">>

\* DeviceMessage.to_json
DeviceMessage_to_json(m) == JsonDumps(m, MessageFields)

\* DeviceMessage.from_dict: DeviceMessageSerializer, raise_exception=True
DeviceMessage_from_dict(d) ==
    LET id == CharField(d, "device_id", 32, 32, FALSE)
        ty == CharField(d, "type", 0, 64, FALSE)
        da == DictField(d, "data")
    IN  IF id.ok /\ ty.ok /\ da.ok
        THEN Valid([device_id |-> id.value, type |-> ty.value, data |-> da.value])
        ELSE Invalid

\* DeviceMessage.from_json
DeviceMessage_from_json(raw) == DeviceMessage_from_dict(JsonLoads(raw))

InfoFields == <<"device_id", "hostname", "os", "arch", "octopi_version",
                "rpi_model", "printerprofile">>

\* DeviceInfo.to_json
DeviceInfo_to_json(di) == JsonDumps(di, InfoFields)

\* DeviceInfo.from_dict: DeviceInfoSerializer, raise_exception=True, then `v or ''`
DeviceInfo_from_dict(d) ==
    LET id == CharField(d, "device_id", 32, 32, FALSE)
        ho == CharField(d, "hostname", 0, 253, FALSE)
        os == CharField(d, "os", 0, 253, TRUE)
        ar == CharField(d, "arch", 0, 253, TRUE)
        rp == CharField(d, "rpi_model", 0, 253, TRUE)
        oc == CharField(d, "octopi_version", 0, 253, TRUE)
        pp == CharField(d, "printerprofile", 0, 253, TRUE)
    IN  IF id.ok /\ ho.ok /\ os.ok /\ ar.ok /\ rp.ok /\ oc.ok /\ pp.ok
        THEN Valid([device_id |-> id.value, hostname |-> ho.value, os |-> os.value,
                    arch |-> ar.value, octopi_version |-> oc.value,
                    rpi_model |-> rp.value, printerprofile |-> pp.value])
        ELSE Invalid

\* DeviceInfo.from_json
DeviceInfo_from_json(raw) == DeviceInfo_from_dict(JsonLoads(raw))

----------------------------------------------------------------------------
(* The store: sorted sets are sets of [member, score] with distinct members, *)
(* ordered by score and, among equal scores, by member.                     *)

\* byte-wise order of two serialized payloads (same field layout)
RawLess(a, b) ==
    \E i \in 1..Len(a) :
        /\ i <= Len(b)
        /\ \A j \in 1..(i - 1) : a[j][2] = b[j][2]
        /\ StrOrd(a[i][2]) < StrOrd(b[i][2])

\* order of two mailbox entries
MessageEntryLess(e, f) ==
    \/ e.score < f.score
    \/ e.score = f.score /\ RawLess(e.member, f.member)

\* order of two presence entries
PresenceEntryLess(e, f) ==
    \/ e.score < f.score
    \/ e.score = f.score /\ StrOrd(e.member) < StrOrd(f.member)

\* no pruning at all
ZRemRangeByScore_none(z, max) == z

\* ZREMRANGEBYSCORE with an exclusive upper end, "(max"
ZRemRangeByScore_exclusive(z, max) == {e \in z : ~(e.score < max)}

\* ZREMRANGEBYSCORE key -inf max: both ends inclusive
ZRemRangeByScore(z, max) == {e \in z : ~(e.score <= max)}

\* an append: a member already present under another score stays next to the
\* new entry
ZAdd_dup(z, member, score) == z \cup {[member |-> member, score |-> score]}

\* ZADD GT: a member already present has its score replaced only by a greater one
ZAdd_gt(z, member, score) ==
    IF \E e \in z : e.member = member /\ e.score >= score THEN z
    ELSE {e \in z : e.member # member} \cup {[member |-> member, score |-> score]}

\* ZADD NX: a member already present keeps the score it has
ZAdd_nx(z, member, score) ==
    IF \E e \in z : e.member = member THEN z
    ELSE z \cup {[member |-> member, score |-> score]}

\* ZINCRBY in place of ZADD: a member already present has the score added to
\* the one it has
ZAdd_incr(z, member, score) ==
    {e \in z : e.member # member}
        \cup {[member |-> member,
               score |-> IF \E e \in z : e.member = member
                         THEN (CHOOSE e \in z : e.member = member).score + score
                         ELSE score]}

\* ZADD key score member: a member already present has its score replaced
ZAdd(z, member, score) ==
    {e \in z : e.member # member} \cup {[member |-> member, score |-> score]}

\* ZPOPMIN that disregards count and pops every entry
RECURSIVE ZPopMin_all(_, _)
ZPopMin_all(z, count) ==
    IF z = {} THEN <<>>
    ELSE LET m == CHOOSE e \in z : \A f \in z \ {e} : MessageEntryLess(e, f)
         IN  <<m>> \o ZPopMin_all(z \ {m}, count)

\* ZPOPMAX in place of ZPOPMIN: the highest entries, highest first
RECURSIVE ZPopMin_max(_, _)
ZPopMin_max(z, count) ==
    IF count <= 0 \/ z = {} THEN <<>>
    ELSE LET m == CHOOSE e \in z : \A f \in z \ {e} : MessageEntryLess(f, e)
         IN  <<m>> \o ZPopMin_max(z \ {m}, count - 1)

\* ZPOPMIN key count: the (up to) count lowest entries, lowest first
RECURSIVE ZPopMin(_, _)
ZPopMin(z, count) ==
    IF count <= 0 \/ z = {} THEN <<>>
    ELSE LET m == CHOOSE e \in z : \A f \in z \ {e} : MessageEntryLess(e, f)
         IN  <<m>> \o ZPopMin(z \ {m}, count - 1)

\* a pop that puts the entries it leaves one second later
ZPopMinLeft_bump(z, count) ==
    {[member |-> e.member, score |-> e.score + 1] :
        e \in z \ {ZPopMin(z, count)[i] : i \in 1..Len(ZPopMin(z, count))}}

\* ZRANGE in place of ZPOPMIN: nothing is removed
ZPopMinLeft_keep(z, count) == z

\* ZPOPMIN key count: what it leaves in the set
ZPopMinLeft(z, count) == z \ {ZPopMin(z, count)[i] : i \in 1..Len(ZPopMin(z, count))}

\* ZRANGEBYSCORE key min +inf: the members scored min or more, lowest first
RECURSIVE ZRangeByScore(_, _)
ZRangeByScore(z, min) ==
    LET in == {e \in z : e.score >= min}
    IN  IF in = {} THEN <<>>
        ELSE LET m == CHOOSE e \in in : \A f \in in \ {e} : PresenceEntryLess(e, f)
             IN  <<m.member>> \o ZRangeByScore(in \ {m}, min)

\* a time-to-live of one second whatever secs is
ExpireAt_unit(secs) == clock + 1

\* a time-to-live one second short
ExpireAt_short(secs) == clock + secs - 1

\* EXPIRE key secs / SETEX key secs value: the key lives until the store's
\* clock reaches the time the command ran plus secs
ExpireAt(secs) == clock + secs

\* ZSCORE key member, NoKey when the member is not stored
ZScore(z, member) ==
    IF \E e \in z : e.member = member
    THEN (CHOOSE e \in z : e.member = member).score
    ELSE NoKey

\* the expiry of a sorted-set key after a write: a set left empty is no key
ZKeyExp(z, exp) == IF z = {} THEN NoKey ELSE exp

Range(s) == {s[i] : i \in 1..Len(s)}

\* redis__presence_prefix: the presence set of a client address
redis__presence_prefix(client_ip) == client_ip

\* redis__device_info_prefix: the snapshot of one device of a client address
redis__device_info_prefix(client_ip, device_id) == <<client_ip, device_id>>

\* a mailbox key that leaves the client address out: messages_to:{device_id}
redis__to_device_message_queue_prefix_noip(client_ip, device_id) == <<"ip1", device_id>>

\* redis__to_device_message_queue_prefix: the mailbox of one device of a
\* client address
redis__to_device_message_queue_prefix(client_ip, device_id) == <<client_ip, device_id>>

----------------------------------------------------------------------------
(* Inputs *)

\* what the transport layer hands over: DeviceMessage.from_dict(request data)
RequestMessages ==
    [device_id : Devices, type : {"cmd", " cmd", "ping", "stop", ""}, data : DataDicts]

ValidatedMessages ==
    {DeviceMessage_from_dict(r).value : r \in {q \in RequestMessages : DeviceMessage_from_dict(q).ok}}

\* DeviceMessage(...) built directly: the dataclass checks nothing
UncheckedMessages ==
    [device_id : Devices, type : {"cmd", "ping", ""}, data : DataDicts]

----------------------------------------------------------------------------
(* Mailbox queue *)

NoPull == [seq |-> 0, client |-> Nil, device |-> Nil, count |-> 0, now |-> 0,
           before |-> {}, popped |-> <<>>, left |-> {}, raised |-> FALSE, ret |-> <<>>,
           again |-> FALSE]

\* lines 120-121: what ZREMRANGEBYSCORE and ZADD make of the mailbox z
MailboxAfterPush(z, raw, t) == ZAdd(ZRemRangeByScore(z, t - MessageWindow), raw, t)

\* a push whose EXPIRE also hits the client's presence key
redis__push_message_for_device_expire(client_ip, device_id, message, t) ==
    LET raw == DeviceMessage_to_json(message)
        key == redis__to_device_message_queue_prefix(client_ip, device_id)
    IN  /\ calls' = Count(calls)
        /\ mailbox' = [mailbox EXCEPT ![key] = MailboxAfterPush(@, raw, t)]
        /\ mailboxExp' = [mailboxExp EXCEPT ![key] = ExpireAt(MessageWindow)]
        /\ presenceExp' = [presenceExp EXCEPT ![client_ip] =
                              IF @ = NoKey THEN @ ELSE ExpireAt(MessageWindow)]
        /\ delivered' = delivered \ {<<client_ip, device_id, raw>>}
        /\ last' = Called("push", client_ip, device_id, raw, 0, t, ZScore(mailbox[key], raw))
        /\ UNCHANGED <<clock, presence, info, infoExp, pull, list, lastUpdate>>

\* a push that sets the time-to-live only on a key that has none (EXPIRE NX)
redis__push_message_for_device_keepttl(client_ip, device_id, message, t) ==
    LET raw == DeviceMessage_to_json(message)
        key == redis__to_device_message_queue_prefix(client_ip, device_id)
    IN  /\ calls' = Count(calls)
        /\ mailbox' = [mailbox EXCEPT ![key] = MailboxAfterPush(@, raw, t)]
        /\ mailboxExp' = [mailboxExp EXCEPT ![key] =
                             IF @ = NoKey THEN ExpireAt(MessageWindow) ELSE @]
        /\ delivered' = delivered \ {<<client_ip, device_id, raw>>}
        /\ last' = Called("push", client_ip, device_id, raw, 0, t, ZScore(mailbox[key], raw))
        /\ UNCHANGED <<clock, presenceVars, pull, list, lastUpdate>>

\* redis__push_message_for_device, lines 116-123
redis__push_message_for_device(client_ip, device_id, message, t) ==
    LET raw == DeviceMessage_to_json(message)
        key == redis__to_device_message_queue_prefix(client_ip, device_id)
    IN  /\ calls' = Count(calls)
        /\ mailbox' = [mailbox EXCEPT ![key] = MailboxAfterPush(@, raw, t)]
        /\ mailboxExp' = [mailboxExp EXCEPT ![key] = ExpireAt(MessageWindow)]
        /\ delivered' = delivered \ {<<client_ip, device_id, raw>>}
        /\ last' = Called("push", client_ip, device_id, raw, 0, t, ZScore(mailbox[key], raw))
        /\ UNCHANGED <<clock, presenceVars, pull, list, lastUpdate>>

\* the loop of lines 140-146 over the popped (raw, score) pairs: from_json
\* either returns a DeviceMessage or raises
RECURSIVE ParseMessages(_)
ParseMessages(raw_messages) ==
    IF raw_messages = <<>> THEN [raised |-> FALSE, messages |-> <<>>]
    ELSE LET msg == DeviceMessage_from_json(Head(raw_messages).member)
             rest == ParseMessages(Tail(raw_messages))
         IN  IF ~msg.ok \/ rest.raised
             THEN [raised |-> TRUE, messages |-> <<>>]
             ELSE [raised |-> FALSE, messages |-> <<msg.value>> \o rest.messages]

\* redis__pull_messages_for_device, lines 133-146
redis__pull_messages_for_device(client_ip, device_id, message_count, t) ==
    LET key == redis__to_device_message_queue_prefix(client_ip, device_id)
        z1 == ZRemRangeByScore(mailbox[key], t - MessageWindow)
        raw_messages == ZPopMin(z1, message_count)
        z2 == ZPopMinLeft(z1, message_count)
        out == ParseMessages(raw_messages)
        got == IF out.raised THEN {}
               ELSE {<<client_ip, device_id, e.member>> : e \in Range(raw_messages)}
    IN  /\ calls' = Count(calls)
        /\ mailbox' = [mailbox EXCEPT ![key] = z2]
        /\ mailboxExp' = [mailboxExp EXCEPT ![key] = ZKeyExp(z2, mailboxExp[key])]
        /\ pull' = [seq |-> calls + 1, client |-> client_ip, device |-> device_id,
                    count |-> message_count, now |-> t, before |-> mailbox[key],
                    popped |-> raw_messages, left |-> z2,
                    raised |-> out.raised, ret |-> out.messages,
                    again |-> got \cap delivered # {}]
        /\ delivered' = delivered \cup got
        /\ last' = Called("pull", client_ip, device_id, <<>>, message_count, t, NoKey)
        /\ UNCHANGED <<clock, presenceVars, list, lastUpdate>>

----------------------------------------------------------------------------
(* Presence registry *)

\* what the transport layer hands over: DeviceInfo.from_dict(request data)
RequestInfos ==
    [device_id : Devices, hostname : {"h1", " h1", "h2", ""}, os : {""}, arch : {""},
     octopi_version : {""}, rpi_model : {""}, printerprofile : {""}]

ValidatedInfos ==
    {DeviceInfo_from_dict(r).value : r \in {q \in RequestInfos : DeviceInfo_from_dict(q).ok}}

NoList == [pc |-> "idle", client |-> Nil, now |-> 0, at |-> 0, device_ids |-> <<>>,
           seen |-> [d \in Devices |-> NoUpdate], fetchedAt |-> 0, ret2 |-> <<>>,
           latest |-> [d \in Devices |-> NoUpdate], raised |-> FALSE, ret |-> <<>>]

\* line 195: what ZADD makes of the presence set z
PresenceAfterUpdate(z, device_id, t) == ZAdd(z, device_id, t)

\* an update that writes the snapshot only when none is stored (SET .. NX)
redis__update_presence_for_device_nx(client_ip, device_id, device_info, t) ==
    LET raw == DeviceInfo_to_json(device_info)
        key == redis__presence_prefix(client_ip)
        info_key == redis__device_info_prefix(client_ip, device_id)
    IN  /\ calls' = Count(calls)
        /\ presence' = [presence EXCEPT ![key] = ZAdd(@, device_id, t)]
        /\ presenceExp' = [presenceExp EXCEPT ![key] = ExpireAt(PresenceWindow)]
        /\ info' = [info EXCEPT ![info_key] = IF @ = NoRaw THEN raw ELSE @]
        /\ infoExp' = [infoExp EXCEPT ![info_key] = ExpireAt(PresenceWindow)]
        /\ lastUpdate' = [lastUpdate EXCEPT
                            ![info_key] = [now |-> t, at |-> clock, info |-> device_info,
                                           n |-> Count(@.n)]]
        /\ last' = Called("update", client_ip, device_id, raw, 0, t,
                          ZScore(presence[key], device_id))
        /\ UNCHANGED <<clock, mailboxVars, pull, list, delivered>>

\* an update cut short after EXPIRE: the score is written, the snapshot is not
redis__update_presence_for_device_cut(client_ip, device_id, device_info, t) ==
    LET raw == DeviceInfo_to_json(device_info)
        key == redis__presence_prefix(client_ip)
        info_key == redis__device_info_prefix(client_ip, device_id)
    IN  /\ calls' = Count(calls)
        /\ presence' = [presence EXCEPT ![key] = ZAdd(@, device_id, t)]
        /\ presenceExp' = [presenceExp EXCEPT ![key] = ExpireAt(PresenceWindow)]
        /\ lastUpdate' = [lastUpdate EXCEPT
                            ![info_key] = [now |-> t, at |-> clock, info |-> device_info,
                                           n |-> Count(@.n)]]
        /\ last' = Called("update", client_ip, device_id, raw, 0, t,
                          ZScore(presence[key], device_id))
        /\ UNCHANGED <<clock, info, infoExp, mailboxVars, pull, list, delivered>>

\* redis__update_presence_for_device, lines 190-198
redis__update_presence_for_device(client_ip, device_id, device_info, t) ==
    LET raw == DeviceInfo_to_json(device_info)
        key == redis__presence_prefix(client_ip)
        info_key == redis__device_info_prefix(client_ip, device_id)
    IN  /\ calls' = Count(calls)
        /\ presence' = [presence EXCEPT ![key] = PresenceAfterUpdate(@, device_id, t)]
        /\ presenceExp' = [presenceExp EXCEPT ![key] = ExpireAt(PresenceWindow)]
        /\ info' = [info EXCEPT ![info_key] = raw]
        /\ infoExp' = [infoExp EXCEPT ![info_key] = ExpireAt(PresenceWindow)]
        /\ lastUpdate' = [lastUpdate EXCEPT
                            ![info_key] = [now |-> t, at |-> clock, info |-> device_info,
                                           n |-> Count(@.n)]]
        /\ last' = Called("update", client_ip, device_id, raw, 0, t,
                          ZScore(presence[key], device_id))
        /\ UNCHANGED <<clock, mailboxVars, pull, list, delivered>>

\* redis__active_devices_for_client_ip, lines 154-161: the first pipeline
redis__active_devices_for_client_ip(client_ip, t) ==
    LET key == redis__presence_prefix(client_ip)
        z1 == ZRemRangeByScore(presence[key], t - PresenceWindow)
        device_ids == ZRangeByScore(z1, t - PresenceWindow)
    IN  /\ list.pc # "fetch"
        /\ calls' = Count(calls)
        /\ presence' = [presence EXCEPT ![key] = z1]
        /\ presenceExp' = [presenceExp EXCEPT ![key] = ZKeyExp(z1, @)]
        /\ list' = [pc |-> "fetch", client |-> client_ip, now |-> t, at |-> clock,
                    device_ids |-> device_ids,
                    seen |-> [d \in Devices |-> lastUpdate[<<client_ip, d>>]],
                    fetchedAt |-> 0, ret2 |-> <<>>,
                    latest |-> [d \in Devices |-> NoUpdate], raised |-> FALSE, ret |-> <<>>]
        /\ last' = Called("list", client_ip, Nil, <<>>, 0, t, NoKey)
        /\ UNCHANGED <<clock, info, infoExp, mailboxVars, pull, lastUpdate, delivered>>

\* a loop that gives up at the first missing snapshot (break for continue)
RECURSIVE ParseInfos_break(_)
ParseInfos_break(ret2) ==
    IF ret2 = <<>> THEN [raised |-> FALSE, dinfos |-> <<>>]
    ELSE LET device_info_raw == Head(ret2)
             rest == ParseInfos_break(Tail(ret2))
         IN  IF device_info_raw = NoRaw THEN [raised |-> FALSE, dinfos |-> <<>>]
             ELSE LET dinfo == DeviceInfo_from_json(device_info_raw)
                  IN  IF ~dinfo.ok \/ rest.raised
                      THEN [raised |-> TRUE, dinfos |-> <<>>]
                      ELSE [raised |-> FALSE, dinfos |-> <<dinfo.value>> \o rest.dinfos]

\* the loop of lines 170-178 over the fetched snapshots: a missing snapshot is
\* skipped, from_json either returns a DeviceInfo or raises
RECURSIVE ParseInfos(_)
ParseInfos(ret2) ==
    IF ret2 = <<>> THEN [raised |-> FALSE, dinfos |-> <<>>]
    ELSE LET device_info_raw == Head(ret2)
             rest == ParseInfos(Tail(ret2))
         IN  IF device_info_raw = NoRaw THEN rest
             ELSE LET dinfo == DeviceInfo_from_json(device_info_raw)
                  IN  IF ~dinfo.ok \/ rest.raised
                      THEN [raised |-> TRUE, dinfos |-> <<>>]
                      ELSE [raised |-> FALSE, dinfos |-> <<dinfo.value>> \o rest.dinfos]

\* redis__active_devices_for_client_ip, lines 163-179: the second pipeline
\* and the result
FetchDeviceInfos ==
    LET ret2 == [i \in 1..Len(list.device_ids) |->
                    info[redis__device_info_prefix(list.client, list.device_ids[i])]]
        out == ParseInfos(ret2)
    IN  /\ list.pc = "fetch"
        /\ list' = [list EXCEPT !.pc = "done", !.raised = out.raised, !.ret = out.dinfos,
                                !.fetchedAt = clock, !.ret2 = ret2,
                                !.latest = [d \in Devices |-> lastUpdate[<<list.client, d>>]]]
        /\ UNCHANGED <<clock, storeVars, pull, lastUpdate, delivered, calls, last>>

----------------------------------------------------------------------------
(* Time: the store's clock advances and keys whose time-to-live has run out *)
(* are deleted.                                                             *)

Expired(exp, now) == exp # NoKey /\ exp <= now

Tick ==
    /\ clock < MaxTime
    /\ clock' = clock + 1
    /\ presence' = [c \in Clients |->
                        IF Expired(presenceExp[c], clock + 1) THEN {} ELSE presence[c]]
    /\ presenceExp' = [c \in Clients |->
                        IF Expired(presenceExp[c], clock + 1) THEN NoKey ELSE presenceExp[c]]
    /\ info' = [k \in Keys |-> IF Expired(infoExp[k], clock + 1) THEN NoRaw ELSE info[k]]
    /\ infoExp' = [k \in Keys |-> IF Expired(infoExp[k], clock + 1) THEN NoKey ELSE infoExp[k]]
    /\ mailbox' = [k \in Keys |-> IF Expired(mailboxExp[k], clock + 1) THEN {} ELSE mailbox[k]]
    /\ mailboxExp' = [k \in Keys |->
                        IF Expired(mailboxExp[k], clock + 1) THEN NoKey ELSE mailboxExp[k]]
    /\ last' = NoCall
    /\ UNCHANGED <<pull, list, lastUpdate, delivered, calls>>

----------------------------------------------------------------------------

\* Only differences of times matter to the store, so a behaviour can go on
\* for ever over bounded numbers: when the clock has reached MaxTime every
\* time in the store is renamed to one less.  A score at or below
\* MaxTime - 1 - window is outside the window of every later call and keeps
\* its name.
Renamed(z, window) ==
    {[member |-> e.member,
      score |-> IF e.score > MaxTime - 1 - window THEN e.score - 1 ELSE e.score] : e \in z}

RenamedExp(exp) == IF exp = NoKey THEN NoKey ELSE exp - 1

Rebase ==
    /\ clock = MaxTime
    /\ clock' = clock - 1
    /\ presence' = [c \in Clients |-> Renamed(presence[c], PresenceWindow)]
    /\ presenceExp' = [c \in Clients |-> RenamedExp(presenceExp[c])]
    /\ infoExp' = [k \in Keys |-> RenamedExp(infoExp[k])]
    /\ mailbox' = [k \in Keys |-> Renamed(mailbox[k], MessageWindow)]
    /\ mailboxExp' = [k \in Keys |-> RenamedExp(mailboxExp[k])]
    /\ UNCHANGED <<info, pull, list, lastUpdate, delivered, calls, last>>

----------------------------------------------------------------------------

Init ==
    /\ clock = 0
    /\ presence = [c \in Clients |-> {}]
    /\ presenceExp = [c \in Clients |-> NoKey]
    /\ info = [k \in Keys |-> NoRaw]
    /\ infoExp = [k \in Keys |-> NoKey]
    /\ mailbox = [k \in Keys |-> {}]
    /\ mailboxExp = [k \in Keys |-> NoKey]
    /\ pull = NoPull
    /\ list = NoList
    /\ lastUpdate = [k \in Keys |-> NoUpdate]
    /\ delivered = {}
    /\ calls = 0
    /\ last = NoCall

\* the cur_time values a caller may supply now
CallTimes == {t \in Times : t - clock <= MaxSkew /\ clock - t <= MaxSkew}

\* cur_time left out: `time.time()`, the clock the store runs on
WallClock == {clock}

\* calls on the keys K with a cur_time of T
PushMessage(K, M, T) ==
    \E k \in K, t \in T :
        \E m \in {v \in M : v.device_id = k[2]} :
            redis__push_message_for_device(k[1], k[2], m, t)

PullMessages(K, T) ==
    \E k \in K, n \in 0..MaxCount, t \in T :
        redis__pull_messages_for_device(k[1], k[2], n, t)

UpdatePresence(K, T) ==
    \E k \in K, t \in T :
        \E di \in {v \in ValidatedInfos : v.device_id = k[2]} :
            redis__update_presence_for_device(k[1], k[2], di, t)

ListActiveDevices(K, T) ==
    \E c \in {k[1] : k \in K}, t \in T :
        redis__active_devices_for_client_ip(c, t)

\* the mailbox of one device, validated producers, caller-supplied cur_time
OneKey == {<<"ip1", "d1">>}

NextMailbox ==
    \/ Tick
    \/ calls < MaxCalls /\ PushMessage(OneKey, ValidatedMessages, CallTimes)
    \/ calls < MaxCalls /\ PullMessages(OneKey, CallTimes)

SpecMailbox == Init /\ [][NextMailbox]_vars

\* the same mailbox, producers that build DeviceMessage without validation
NextAnomaly ==
    \/ Tick
    \/ calls < MaxCalls /\ PushMessage(OneKey, UncheckedMessages, CallTimes)
    \/ calls < MaxCalls /\ PullMessages(OneKey, CallTimes)

SpecAnomaly == Init /\ [][NextAnomaly]_vars

\* the presence registry of one client address, caller-supplied cur_time
OneClient == {"ip1"} \X Devices

NextPresence ==
    \/ Tick
    \/ calls < MaxPresenceCalls /\ UpdatePresence(OneClient, CallTimes)
    \/ calls < MaxPresenceCalls /\ ListActiveDevices(OneClient, CallTimes)
    \/ FetchDeviceInfos

SpecPresence == Init /\ [][NextPresence]_vars

\* both subsystems, every key, cur_time left to default to the wall clock
Next ==
    \/ Tick
    \/ calls < MaxCallsAll /\ PushMessage(Keys, ValidatedMessages, WallClock)
    \/ calls < MaxCallsAll /\ PullMessages(Keys, WallClock)
    \/ calls < MaxCallsAll /\ UpdatePresence(Keys, WallClock)
    \/ calls < MaxCallsAll /\ ListActiveDevices(Keys, WallClock)
    \/ FetchDeviceInfos

Spec == Init /\ [][Next]_vars

----------------------------------------------------------------------------
(* Properties of the mailbox queue, checked under SpecMailbox *)

\* the entries of z a call made with cur_time t treats as not expired
Fresh(z, t) == {e \in z : e.score > t - MessageWindow}

\* the payloads a pull returned, re-serialized
Returned == {DeviceMessage_to_json(pull.ret[i]) : i \in 1..Len(pull.ret)}

\* C1: every message a pull returns is a stored entry whose enqueue score is
\* strictly greater than the call's now minus the message window, so a message
\* enqueued at t is never returned by a pull made at t + MessageWindow or later.
C1_PullReturnsOnlyFresh ==
    /\ Len(pull.ret) = Len(pull.popped)
    /\ \A i \in 1..Len(pull.ret) :
        /\ pull.popped[i] \in pull.before
        /\ DeviceMessage_to_json(pull.ret[i]) = pull.popped[i].member
        /\ pull.popped[i].score > pull.now - MessageWindow

\* a pull returned a message while an expired one was in the mailbox
C1_Witness ==
    /\ pull.ret # <<>>
    /\ \E e \in pull.before : e.score <= pull.now - MessageWindow

\* C5: a pull returns messages in ascending order of enqueue score, and every
\* non-expired message it leaves behind is scored no lower than those returned.
C5_PullIsFifoByScore ==
    /\ Len(pull.ret) = Len(pull.popped)
    /\ \A i \in 1..Len(pull.ret) :
        DeviceMessage_to_json(pull.ret[i]) = pull.popped[i].member
    /\ \A i, j \in 1..Len(pull.popped) :
        i < j => pull.popped[i].score <= pull.popped[j].score
    /\ \A e \in Fresh(pull.before, pull.now) :
        e.member \notin Returned =>
            \A i \in 1..Len(pull.popped) : pull.popped[i].score <= e.score

\* of three messages enqueued at t1 < t2 < t3 a pull of two returned the t1
\* and the t2 message, in that order, and left the t3 message
C5_Witness ==
    /\ pull.count = 2
    /\ Len(pull.ret) = 2
    /\ pull.popped[1].score < pull.popped[2].score
    /\ \E e \in pull.left : pull.popped[2].score < e.score
    /\ mailbox[<<pull.client, pull.device>>] = pull.left

\* C6: a pull of maxCount returns at most maxCount messages, and what it leaves
\* in the mailbox is exactly the non-expired messages it did not return.
C6_BatchCap ==
    /\ Len(pull.ret) <= pull.count
    /\ pull.left = {e \in Fresh(pull.before, pull.now) : e.member \notin Returned}
    /\ Cardinality(Fresh(pull.before, pull.now)) >= pull.count
        => Len(pull.ret) = pull.count

\* more non-expired messages were pending than the pull asked for
C6_Witness ==
    /\ pull.count >= 1
    /\ Cardinality(Fresh(pull.before, pull.now)) > pull.count
    /\ Len(pull.ret) = pull.count
    /\ pull.left # {}

\* C7: no pull returns a payload that a pull has already returned, unless it
\* was pushed again in between; what a pull returns is gone from the mailbox,
\* and a pull of an empty mailbox returns nothing.
C7_AtMostOnce ==
    /\ ~pull.again
    /\ \A i \in 1..Len(pull.popped) : pull.popped[i] \notin pull.left
    /\ \A k \in Keys : \A e \in mailbox[k] : <<k[1], k[2], e.member>> \notin delivered
    /\ pull.before = {} => pull.ret = <<>>

\* a pull that found the mailbox drained by an earlier pull
C7_Witness ==
    /\ pull.count >= 1
    /\ pull.before = {}
    /\ pull.ret = <<>>
    /\ \E x \in delivered : x[1] = pull.client /\ x[2] = pull.device

----------------------------------------------------------------------------
(* Properties of the presence registry *)

\* the device ids of the entries a finished list call returned
RetIds == {list.ret[i].device_id : i \in 1..Len(list.ret)}

\* C2: a list call never returns a device whose most recent update-presence
\* call, as of the moment the list call read the presence set, supplied a time
\* that is the presence window or more before the list call's now.
C2_ListReturnsOnlyFresh ==
    list.pc = "done" =>
        \A d \in RetIds :
            /\ d \in Devices
            /\ list.seen[d] # NoUpdate
            /\ list.seen[d].now > list.now - PresenceWindow

\* a list call returned one device and left out another whose latest update
\* had fallen out of the window, although its snapshot was still stored
C2_Witness ==
    /\ list.pc = "done"
    /\ RetIds # {}
    /\ \E j \in 1..Len(list.device_ids) : list.ret2[j] # NoRaw
    /\ \E d \in Devices \ RetIds :
        /\ list.seen[d] # NoUpdate
        /\ list.seen[d].now <= list.now - PresenceWindow
        /\ list.seen[d].at + PresenceWindow > list.fetchedAt

\* C4: every DeviceInfo a list call returns equals the payload of the most
\* recent update-presence call for that client and device completed before the
\* list call read the snapshot, and no device id is returned twice.
C4_SnapshotIsLatestUpdate ==
    list.pc = "done" =>
        /\ \A i \in 1..Len(list.ret) :
            /\ list.ret[i].device_id \in Devices
            /\ list.ret[i] = list.latest[list.ret[i].device_id].info
        /\ \A i, j \in 1..Len(list.ret) :
            list.ret[i].device_id = list.ret[j].device_id => i = j

\* a list call returned a device that had been updated more than once
C4_Witness ==
    /\ list.pc = "done"
    /\ \E i \in 1..Len(list.ret) : list.latest[list.ret[i].device_id].n >= 2

\* the snapshots a list call fetched, without the missing ones
RECURSIVE Present(_)
Present(ret2) ==
    IF ret2 = <<>> THEN <<>>
    ELSE IF Head(ret2) = NoRaw THEN Present(Tail(ret2))
    ELSE <<Head(ret2)>> \o Present(Tail(ret2))

\* C10: a list call that finds the snapshot of a listed device missing raises
\* no error; its result has no entry for that device and one entry, the stored
\* snapshot, for every listed device whose snapshot is there.
C10_MissingSnapshotSkipped ==
    list.pc = "done" =>
        /\ ~list.raised
        /\ Len(list.ret) = Len(Present(list.ret2))
        /\ \A i \in 1..Len(list.ret) : DeviceInfo_to_json(list.ret[i]) = Present(list.ret2)[i]
        /\ \A j \in 1..Len(list.device_ids) :
            list.ret2[j] = NoRaw <=> list.device_ids[j] \notin RetIds

\* a list call found one listed device's snapshot missing and returned another
C10_Witness ==
    /\ list.pc = "done"
    /\ \E j \in 1..Len(list.device_ids) : list.ret2[j] = NoRaw
    /\ \E j \in 1..Len(list.device_ids) : list.ret2[j] # NoRaw
    /\ list.ret # <<>>

----------------------------------------------------------------------------
(* Malformed stored payloads, checked under SpecAnomaly *)

\* the well-formed ones among the popped payloads, parsed, in order
RECURSIVE WellFormed(_)
WellFormed(raw_messages) ==
    IF raw_messages = <<>> THEN <<>>
    ELSE LET msg == DeviceMessage_from_json(Head(raw_messages).member)
         IN  IF msg.ok THEN <<msg.value>> \o WellFormed(Tail(raw_messages))
             ELSE WellFormed(Tail(raw_messages))

\* C9: a pull that pops a malformed payload raises no error, drops that payload
\* and returns every well-formed message popped in the same call.
C9_MalformedDropped ==
    /\ ~pull.raised
    /\ pull.ret = WellFormed(pull.popped)

----------------------------------------------------------------------------
(* Properties checked under Spec: every key, cur_time from the wall clock *)

\* C3 as stated: with t2 the time of the device's latest update when the list
\* call reads the presence set, a list call at t2 <= now < t2 + PresenceWindow
\* returns the device and one at now > t2 + PresenceWindow does not.
C3_FreshnessAsStated ==
    list.pc = "done" =>
        \A d \in Devices :
            list.seen[d] # NoUpdate =>
                /\ (list.seen[d].now <= list.now
                        /\ list.now < list.seen[d].now + PresenceWindow)
                    => d \in RetIds
                /\ list.now > list.seen[d].now + PresenceWindow => d \notin RetIds

\* C3 amended: the device is returned when, besides, the list call's second
\* pipeline runs before t2 + PresenceWindow on the store's clock.
C3_Freshness ==
    list.pc = "done" =>
        \A d \in Devices :
            list.seen[d] # NoUpdate =>
                /\ (list.seen[d].now <= list.now
                        /\ list.now < list.seen[d].now + PresenceWindow
                        /\ list.fetchedAt < list.seen[d].now + PresenceWindow)
                    => d \in RetIds
                /\ list.now > list.seen[d].now + PresenceWindow => d \notin RetIds

\* a device updated at t1 < t2 is returned by a list call made in the last second
\* of its window
C3_Witness ==
    /\ list.pc = "done"
    /\ \E d \in RetIds :
        /\ list.seen[d].n >= 2
        /\ list.now = list.seen[d].now + PresenceWindow - 1

\* a step that is a push or a pull: a call that is neither an update (which
\* counts in lastUpdate) nor the start of a list call (which changes list)
IsMailboxCall == calls' # calls /\ lastUpdate' = lastUpdate /\ list' = list

\* a step that is an update-presence call or either pipeline of a list call
IsPresenceCall == lastUpdate' # lastUpdate \/ list' # list

\* every key's time-to-live was set from its own subsystem's window
ExpiryByOwnWindow ==
    /\ \A k \in Keys :
        /\ infoExp[k] # NoKey => infoExp[k] = lastUpdate[k].at + PresenceWindow
        /\ mailboxExp[k] # NoKey =>
            mailboxExp[k] > clock /\ mailboxExp[k] <= clock + MessageWindow
    /\ \A c \in Clients :
        presenceExp[c] # NoKey =>
            \E d \in Devices : presenceExp[c] = lastUpdate[<<c, d>>].at + PresenceWindow

\* C8: a push or a pull leaves the presence set, its time-to-live and every
\* snapshot unchanged; an update or a list call leaves every mailbox and its
\* time-to-live unchanged; every key expires by its own subsystem's window.
C8_IndependentWindows ==
    [][ /\ IsMailboxCall => UNCHANGED presenceVars
        /\ IsPresenceCall => UNCHANGED mailboxVars
        /\ ExpiryByOwnWindow' ]_vars

\* a pull returned a message while the same client's presence set and a
\* snapshot were stored
C8_Witness ==
    /\ pull.ret # <<>>
    /\ presence[pull.client] # {}
    /\ info[<<pull.client, pull.device>>] # NoRaw

----------------------------------------------------------------------------
(* Atomicity of an update, checked under SpecPresence *)

\* the score and the snapshot the latest update of key k wrote are both in
\* the store
ScoreOfLatest(k) ==
    /\ lastUpdate[k] # NoUpdate
    /\ [member |-> k[2], score |-> lastUpdate[k].now] \in presence[k[1]]

SnapshotOfLatest(k) ==
    /\ info[k] = DeviceInfo_to_json(lastUpdate[k].info)
    /\ infoExp[k] = lastUpdate[k].at + PresenceWindow

\* C11: an update writes the score, the presence key's TTL and the snapshot
\* with its TTL in one atomic unit: in no state another call can read is the
\* score of the latest update of a device recorded without the snapshot of
\* that same update, unless the snapshot's own TTL has run out since; and a
\* list call that saw no update of a listed device between its two reads
\* fetches the snapshot of the update whose score it listed, or none after
\* that TTL.
C11_UpdateIsAtomic ==
    /\ \A k \in Keys :
          ScoreOfLatest(k) =>
              \/ SnapshotOfLatest(k)
              \/ info[k] = NoRaw /\ clock >= lastUpdate[k].at + PresenceWindow
    /\ list.pc = "done" =>
          \A i \in 1..Len(list.device_ids) :
              LET u == list.seen[list.device_ids[i]]
              IN  (u # NoUpdate /\ u = list.latest[list.device_ids[i]]) =>
                      \/ list.ret2[i] = DeviceInfo_to_json(u.info)
                      \/ list.ret2[i] = NoRaw /\ list.fetchedAt >= u.at + PresenceWindow

\* an update ran between the two reads of a list call, and its score and its
\* snapshot are both in the store
C11_Witness ==
    /\ list.pc = "fetch"
    /\ \E d \in Devices :
          /\ lastUpdate[<<list.client, d>>] # list.seen[d]
          /\ ScoreOfLatest(<<list.client, d>>)
          /\ SnapshotOfLatest(<<list.client, d>>)

----------------------------------------------------------------------------
(* Retries, checked under Spec *)

\* this step is a call that repeats the call before it: same operation, same
\* arguments, no other call and no expiry in between
IsRetry == calls' # calls /\ last'.repeat

\* the retry returns what the first call returned
SameOutcome ==
    /\ last'.op = "pull" => pull'.raised = pull.raised /\ pull'.ret = pull.ret
    /\ last'.op = "list" => list'.device_ids = list.device_ids

\* C12 as stated: every operation is retryable; a call repeated with the
\* same arguments leaves the store as the first application left it and
\* yields the same outcome.
C12_RetryAsStated == [][IsRetry => UNCHANGED storeVars /\ SameOutcome]_vars

\* C12: updatePresence, pushMessage and the presence read of listActiveDevices
\* are idempotent: repeated with the same arguments right after the first
\* application they leave the store unchanged and list the same devices.
\* pullMessages is not: a repeated pull returns none of the entries the first
\* one popped, which are gone from the store.
C12_Retry ==
    [][IsRetry =>
          /\ last'.op # "pull" => UNCHANGED storeVars /\ SameOutcome
          /\ last'.op = "pull" =>
                /\ Range(pull'.popped) \cap Range(pull.popped) = {}
                /\ Range(pull.popped) \cap mailbox[<<last'.client, last'.device>>] = {}]_vars

\* a push was repeated with the same arguments and its entry is stored
C12_Witness ==
    /\ last.op = "push"
    /\ last.repeat
    /\ [member |-> last.raw, score |-> last.now] \in mailbox[<<last.client, last.device>>]
    /\ last.now > 0

----------------------------------------------------------------------------
(* Two callers racing on one key, checked under SpecRace *)

\* pushes and updates on one (client address, device id), cur_time supplied
\* by the callers
NextRace ==
    \/ Tick
    \/ calls < MaxRaceCalls /\ PushMessage(OneKey, ValidatedMessages, CallTimes)
    \/ calls < MaxRaceCalls /\ UpdatePresence(OneKey, CallTimes)

SpecRace == Init /\ [][NextRace]_vars

\* the serialized payloads callers may send for device d
MessageRaws(d) == {DeviceMessage_to_json(m) : m \in {v \in ValidatedMessages : v.device_id = d}}
InfoRaws(d) == {DeviceInfo_to_json(di) : di \in {v \in ValidatedInfos : v.device_id = d}}

\* the mailbox after the unit of push (raw1, t1) and then the unit of push
\* (raw2, t2) have run on mailbox z
TwoPushes(z, raw1, t1, raw2, t2) ==
    MailboxAfterPush(MailboxAfterPush(z, raw1, t1), raw2, t2)

\* the presence set and the snapshot of device d after the unit of update
\* (raw1, t1) and then the unit of update (raw2, t2) have run
TwoUpdates(z, d, raw1, t1, raw2, t2) ==
    [presence |-> PresenceAfterUpdate(PresenceAfterUpdate(z, d, t1), d, t2),
     info |-> raw2]

\* C13 as stated: the state two racing calls on one key leave is the same
\* for both execution orders of their atomic units.
C13_RaceAsStated ==
    \A k \in OneKey, t1 \in Times, t2 \in Times :
        /\ \A r1 \in MessageRaws(k[2]), r2 \in MessageRaws(k[2]) :
              TwoPushes(mailbox[k], r1, t1, r2, t2) = TwoPushes(mailbox[k], r2, t2, r1, t1)
        /\ \A r1 \in InfoRaws(k[2]), r2 \in InfoRaws(k[2]) :
              TwoUpdates(presence[k[1]], k[2], r1, t1, r2, t2)
                  = TwoUpdates(presence[k[1]], k[2], r2, t2, r1, t1)

\* C13: of two racing calls on one key the one executed last wins: its
\* payload carries its score, its snapshot is the one stored.  The two
\* execution orders leave the same state exactly when, for two updates, the
\* calls supply the same now and the same info, and for two pushes, the calls
\* supply the same now or different payloads with timestamps less than the
\* message window apart.
C13_Race ==
    \A k \in OneKey, t1 \in Times, t2 \in Times :
        /\ \A r1 \in MessageRaws(k[2]), r2 \in MessageRaws(k[2]) :
              /\ [member |-> r2, score |-> t2] \in TwoPushes(mailbox[k], r1, t1, r2, t2)
              /\ (TwoPushes(mailbox[k], r1, t1, r2, t2) = TwoPushes(mailbox[k], r2, t2, r1, t1))
                    <=> \/ t1 = t2
                        \/ /\ r1 # r2
                           /\ t1 - t2 < MessageWindow
                           /\ t2 - t1 < MessageWindow
        /\ \A r1 \in InfoRaws(k[2]), r2 \in InfoRaws(k[2]) :
              /\ [member |-> k[2], score |-> t2]
                    \in TwoUpdates(presence[k[1]], k[2], r1, t1, r2, t2).presence
              /\ TwoUpdates(presence[k[1]], k[2], r1, t1, r2, t2).info = r2
              /\ (TwoUpdates(presence[k[1]], k[2], r1, t1, r2, t2)
                     = TwoUpdates(presence[k[1]], k[2], r2, t2, r1, t1))
                    <=> (t1 = t2 /\ r1 = r2)

\* two pushes of one payload with different timestamps have run on a key and
\* the payload carries the score of the later one
C13_Witness ==
    /\ last.op = "push"
    /\ last.prior # NoKey
    /\ last.prior # last.now
    /\ [member |-> last.raw, score |-> last.now] \in mailbox[<<last.client, last.device>>]

----------------------------------------------------------------------------
(* Removal of stale presence entries, checked under SpecLive *)

\* devices of one client address that call update-presence with the default
\* cur_time as often as they like, and no list call; time never stops
NextLive ==
    \/ Tick
    \/ Rebase
    \/ clock < MaxTime /\ UpdatePresence(OneClient, WallClock)

SpecLive == Init /\ [][NextLive]_vars /\ WF_vars(Tick) /\ WF_vars(Rebase)

\* the presence set of k's client holds k's device with a score outside the
\* presence window
Stale(k) == \E e \in presence[k[1]] : e.member = k[2] /\ e.score <= clock - PresenceWindow

\* C14: a presence entry whose score has fallen outside the presence window
\* is eventually gone from the store, in every execution in which time goes
\* on, also when other devices of the client address keep updating and no
\* list call is made.
C14_StaleEventuallyRemoved == \A k \in OneClient : Stale(k) ~> ~Stale(k)

----------------------------------------------------------------------------
(* Immutability of stored messages, checked under SpecMailbox *)

\* this step is a push to mailbox k
IsPush(k) == calls' # calls /\ last'.op = "push" /\ <<last'.client, last'.device>> = k

\* the payload of entry e is still stored in mailbox k after the step
Kept(k, e) == \E f \in mailbox'[k] : f.member = e.member

\* C15 as stated: from the moment an entry is stored until it is removed, no
\* operation changes its payload or its enqueue score.
C15_NeverMutatedAsStated ==
    [][\A k \in Keys : \A e \in mailbox[k] : Kept(k, e) => e \in mailbox'[k]]_vars

\* C15: no operation changes a stored entry's payload, and the only operation
\* that changes its enqueue score is a push of the same payload to the same
\* mailbox, which gives the entry the score of that push; every entry that
\* appears in a mailbox is the one a push to it has just written.
C15_NeverMutated ==
    [][\A k \in Keys :
          /\ \A e \in mailbox[k] :
                (Kept(k, e) /\ e \notin mailbox'[k]) =>
                    /\ IsPush(k)
                    /\ e.member = last'.raw
                    /\ [member |-> e.member, score |-> last'.now] \in mailbox'[k]
          /\ \A f \in mailbox'[k] \ mailbox[k] :
                IsPush(k) /\ f = [member |-> last'.raw, score |-> last'.now]]_vars

\* a push has given a stored payload a new score and another entry of the
\* mailbox is stored next to it
C15_Witness ==
    /\ last.op = "push"
    /\ last.prior # NoKey
    /\ last.prior # last.now
    /\ \E e \in mailbox[<<last.client, last.device>>] : e.member # last.raw
    /\ pull.seq > 0

----------------------------------------------------------------------------
(* Overwriting of the presence score, checked under SpecPresence *)

\* this step is an update of key k / the first read of a list call
IsUpdate(k) == calls' # calls /\ last'.op = "update" /\ <<last'.client, last'.device>> = k
IsList == calls' # calls /\ last'.op = "list"

\* C16: an update always overwrites the device's recorded score with the now
\* it supplies, also when that now is older than the score recorded; the
\* recorded score of a device is therefore the now of its latest update, and
\* a list call judges the device against that score: it lists exactly the
\* devices whose recorded score is greater than its own now minus the
\* presence window.
C16_UpdateOverwrites ==
    [][/\ \A k \in Keys :
             /\ IsUpdate(k) => ZScore(presence'[k[1]], k[2]) = last'.now
             /\ ZScore(presence'[k[1]], k[2]) \in {NoKey, lastUpdate'[k].now}
       /\ IsList =>
             \A d \in Devices :
                 d \in Range(list'.device_ids)
                     <=> /\ ZScore(presence[last'.client], d) # NoKey
                         /\ ZScore(presence[last'.client], d) > last'.now - PresenceWindow]_vars

\* an update has replaced a recorded score by an older one
C16_Witness ==
    /\ last.op = "update"
    /\ last.prior # NoKey
    /\ last.prior > last.now
    /\ ZScore(presence[last.client], last.device) = last.now

----------------------------------------------------------------------------
(* One entry per payload, checked under SpecMailbox *)

\* this step is a pull from mailbox k
IsPull(k) == calls' # calls /\ last'.op = "pull" /\ <<last'.client, last'.device>> = k

\* C17: a mailbox holds a serialized payload at most once.  A push leaves
\* exactly one entry with its payload, scored with its now; a push repeated
\* with the same payload and the same now leaves the mailbox as it was; a
\* push of a payload not yet stored adds an entry of its own to the entries
\* it does not prune; and a pull returns no payload twice.
C17_OneEntryPerPayload ==
    [][\A k \in Keys :
          /\ \A e \in mailbox'[k], f \in mailbox'[k] : e.member = f.member => e = f
          /\ IsPush(k) =>
                /\ {e \in mailbox'[k] : e.member = last'.raw}
                      = {[member |-> last'.raw, score |-> last'.now]}
                /\ last'.repeat => mailbox'[k] = mailbox[k]
                /\ last'.prior = NoKey =>
                      Cardinality(mailbox'[k])
                          = Cardinality(Fresh(mailbox[k], last'.now)) + 1
          /\ IsPull(k) =>
                \A i \in 1..Len(pull'.popped), j \in 1..Len(pull'.popped) :
                    i # j => pull'.popped[i].member # pull'.popped[j].member]_vars

\* a payload was pushed twice with the same now into a mailbox that holds
\* another payload: two entries are stored
C17_Witness ==
    /\ last.op = "push"
    /\ last.repeat
    /\ Cardinality(mailbox[<<last.client, last.device>>]) = 2
    /\ \E e \in mailbox[<<last.client, last.device>>] : e.member # last.raw

----------------------------------------------------------------------------
(* Post-state of a push, checked under SpecMailbox *)

\* C18: a push of payload m with cur_time now is one step after which the
\* mailbox holds no entry scored now - MessageWindow or less, holds m scored
\* now, holds unchanged every other entry that was scored above
\* now - MessageWindow and nothing else, and the mailbox key lives for the
\* full message window from the store's clock.
C18_PushPostState ==
    [][\A k \in Keys :
          IsPush(k) =>
              /\ \A e \in mailbox'[k] : e.score > last'.now - MessageWindow
              /\ [member |-> last'.raw, score |-> last'.now] \in mailbox'[k]
              /\ \A e \in mailbox[k] :
                    (e.member # last'.raw /\ e.score > last'.now - MessageWindow)
                        => e \in mailbox'[k]
              /\ mailbox'[k] \subseteq
                    mailbox[k] \cup {[member |-> last'.raw, score |-> last'.now]}
              /\ mailboxExp'[k] = clock' + MessageWindow]_vars

\* a push has stored its payload next to an older entry it kept, on a key
\* whose time-to-live had been running, and the key lives for the full window
C18_Witness ==
    /\ last.op = "push"
    /\ [member |-> last.raw, score |-> last.now] \in mailbox[<<last.client, last.device>>]
    /\ \E e \in mailbox[<<last.client, last.device>>] :
          e.member # last.raw /\ e.score < last.now /\ e.score < clock
    /\ mailboxExp[<<last.client, last.device>>] = clock + MessageWindow

----------------------------------------------------------------------------
(* Isolation by key, checked under Spec *)

\* this step is an update or the first read of a list call for client c
IsPresenceCallOf(c) ==
    calls' # calls /\ last'.op \in {"update", "list"} /\ last'.client = c

\* C19: a push to or a pull from the mailbox of (c, d) leaves the mailbox of
\* every other (client address, device id) and its time-to-live unchanged;
\* an update or a list call for client address c, either of its two reads,
\* leaves the presence set, the snapshots and their times-to-live of every
\* other client address unchanged.
C19_IsolationByKey ==
    [][/\ \A k \in Keys :
             (IsPush(k) \/ IsPull(k)) =>
                 \A k2 \in Keys \ {k} :
                     mailbox'[k2] = mailbox[k2] /\ mailboxExp'[k2] = mailboxExp[k2]
       /\ \A c \in Clients :
             (IsPresenceCallOf(c) \/ (list.pc = "fetch" /\ list'.pc = "done" /\ list.client = c)) =>
                 \A c2 \in Clients \ {c} :
                     /\ presence'[c2] = presence[c2]
                     /\ presenceExp'[c2] = presenceExp[c2]
                     /\ \A d \in Devices :
                           /\ info'[<<c2, d>>] = info[<<c2, d>>]
                           /\ infoExp'[<<c2, d>>] = infoExp[<<c2, d>>]]_vars

\* a push has run while the mailbox of another client address for the same
\* device held a message and a presence set was recorded
C19_Witness ==
    /\ last.op = "push"
    /\ \E c2 \in Clients \ {last.client} : mailbox[<<c2, last.device>>] # {}
    /\ \E c \in Clients : presence[c] # {}

----------------------------------------------------------------------------
(* Key time-to-live against the windows, checked under Spec, where every    *)
(* call's cur_time is the store's clock                                     *)

\* this step is time passing
IsTick == clock' = clock + 1

\* C20: when a mailbox key's time-to-live lapses every message in it is
\* scored now - MessageWindow or less, and when a presence key's lapses every
\* member is scored now - PresenceWindow or less, now being the store's clock
\* at the lapse; a pull and both reads of a list call leave every
\* time-to-live as it is or delete a key they emptied, and never extend one.
C20_TtlKeepsLiveData ==
    [][/\ IsTick =>
             /\ \A k \in Keys :
                   mailbox'[k] # mailbox[k] =>
                       /\ mailbox'[k] = {}
                       /\ \A e \in mailbox[k] : e.score <= clock' - MessageWindow
             /\ \A c \in Clients :
                   presence'[c] # presence[c] =>
                       /\ presence'[c] = {}
                       /\ \A e \in presence[c] : e.score <= clock' - PresenceWindow
       /\ ((\E k \in Keys : IsPull(k)) \/ IsList \/ list'.pc # list.pc) =>
             /\ \A k \in Keys :
                   /\ mailboxExp'[k] \in {mailboxExp[k], NoKey}
                   /\ infoExp'[k] = infoExp[k]
             /\ \A c \in Clients : presenceExp'[c] \in {presenceExp[c], NoKey}]_vars

\* pushes were the only calls, and every mailbox is empty again: the keys'
\* times-to-live have lapsed
C20_Witness ==
    /\ calls > 0
    /\ pull.seq = 0
    /\ list.pc = "idle"
    /\ \A k \in Keys : lastUpdate[k] = NoUpdate /\ mailbox[k] = {}
    /\ last = NoCall

====
